---- MODULE Spec2Model ----
(***************************************************************************)
(* Model of the k-d tree of src/src/blockdb.rs (BlockDb) and of the way    *)
(* src/src/main.rs drives it: BlockDb::new builds the tree once, then      *)
(* find_closest_pos is called, possibly from several rayon workers at      *)
(* once, on the shared immutable tree.                                     *)
(*                                                                         *)
(* Option<X> is modelled as a sequence of length at most one: <<>> is None *)
(* and <<x>> is Some(x).  Array indices are 1-based here (key[1..3]) where *)
(* the source is 0-based (key[0..2]).                                      *)
(***************************************************************************)
EXTENDS Integers, Sequences, FiniteSets, Bags, TLC

VARIABLES
    T,        \* the key element type BlockDb is instantiated with: "i16" | "i64"
    profile,  \* the cargo profile: "debug" (overflow panics) | "release" (wraps)
    phase,    \* "init" before BlockDb::new has returned, "built" after
    items,    \* the Vec<I> that was handed to BlockDb::new
    root,     \* BlockDb.root : Option<Box<Node>>
    threads   \* the workers calling find_closest_pos, each with its call stack

vars == <<T, profile, phase, items, root, threads>>

(***************************************************************************)
(* Bounds of the model.                                                    *)
(***************************************************************************)
\* coordinates of the general specifications lie within this squared
\* distance of the origin (non-negative octant)
MaxSqNorm == 2
\* longest item list handed to BlockDb::new in Spec
MaxItems == 3
\* longest item list handed to BlockDb::new in SpecBuild
MaxBuildItems == 5
\* number of concurrent workers in SpecPar
NThreads == 2

(***************************************************************************)
(* Program constants.                                                      *)
(***************************************************************************)
I16Min == -32768
I16Max == 32767
\* avg_color averages u8 channels, so every component is in 0..=255
ColorMax == 255

None == <<>>
Some(x) == <<x>>

(***************************************************************************)
(* Dimension                                                               *)
(***************************************************************************)
Dimension == {"First", "Second", "Third"}

next(self) ==
    CASE self = "First"  -> "Second"
      [] self = "Second" -> "Third"
      [] self = "Third"  -> "First"

\* impl From<Dimension> for usize (and `dim as usize`), shifted to 1-based
DimIndex(d) ==
    CASE d = "First"  -> 1
      [] d = "Second" -> 2
      [] d = "Third"  -> 3

(***************************************************************************)
(* Arithmetic of the key element type T.  i16 is modelled with its width;  *)
(* i64 is exact here because every value of the model is far from 2^63.    *)
(***************************************************************************)
InRange(x) == T = "i16" => (x >= I16Min /\ x <= I16Max)

Wrap(x) ==
    IF T = "i16"
    THEN ((x - I16Min) % (I16Max - I16Min + 1)) + I16Min
    ELSE x

Sub(a, b) == Wrap(a - b)
Add(a, b) == Wrap(a + b)
Mul(a, b) == Wrap(a * b)

(***************************************************************************)
(* Items and nodes                                                         *)
(***************************************************************************)
\* An item is opaque to BlockDb; id tells apart items with equal keys.
Item(i, p) == [id |-> i, pos |-> p]

\* the key function the callers pass: |x| [x.0, x.1, x.2] in the test,
\* |img| avg_color(img).into() in main
keyfn(item) == item.pos

\* the Node literal of BlockDb::new
NewNode(item) ==
    [key |-> keyfn(item), item |-> item, dim |-> "First",
     right |-> None, left |-> None]

is_leaf(node) == node.left = None /\ node.right = None

\* Node::squared_dist, in T's arithmetic
squared_dist(node, target) ==
    LET k  == node.key
        d0 == Sub(target[1], k[1])
        d1 == Sub(target[2], k[2])
        d2 == Sub(target[3], k[3])
    IN  Add(Add(Mul(d0, d0), Mul(d1, d1)), Mul(d2, d2))

\* TRUE when some operation of squared_dist leaves T's range: the debug
\* profile panics there ("attempt to multiply/add with overflow")
squared_dist_overflows(node, target) ==
    LET k  == node.key
        d0 == target[1] - k[1]
        d1 == target[2] - k[2]
        d2 == target[3] - k[3]
    IN  \/ ~InRange(d0) \/ ~InRange(d1) \/ ~InRange(d2)
        \/ ~InRange(d0 * d0) \/ ~InRange(d1 * d1) \/ ~InRange(d2 * d2)
        \/ ~InRange(d0 * d0 + d1 * d1)
        \/ ~InRange(d0 * d0 + d1 * d1 + d2 * d2)

(***************************************************************************)
(* BlockDb::build_tree                                                     *)
(***************************************************************************)
\* the closure given to sort_by
Compare_ascending(a, b, index) ==
    IF a.key[index] < b.key[index] THEN "Less" ELSE "Greater"

Compare(a, b, index) ==
    IF b.key[index] < a.key[index] THEN "Less" ELSE "Greater"

\* slice::sort_by is a stable sort that asks the closure only whether
\* compare(a, b) == Less; with this closure that is the strict order
\* "a's component is larger", so the outcome is the stable descending order.
RECURSIVE InsertTail(_, _, _)
InsertTail(s, x, index) ==
    IF s = <<>>
    THEN <<x>>
    ELSE LET last == s[Len(s)]
         IN  IF Compare(x, last, index) = "Less"
             THEN Append(InsertTail(SubSeq(s, 1, Len(s) - 1), x, index), last)
             ELSE Append(s, x)

RECURSIVE sort_by(_, _)
sort_by(v, index) ==
    IF v = <<>>
    THEN <<>>
    ELSE InsertTail(sort_by(SubSeq(v, 1, Len(v) - 1), index), v[Len(v)], index)

Median_up(len) == (len + 1) \div 2

Median_low(len) == (len - 1) \div 2

Median(len) == len \div 2

RECURSIVE build_tree(_, _)
build_tree(nodes, dim) ==
    IF Len(nodes) < 2
    THEN IF nodes = <<>>
         THEN None
         ELSE Some([nodes[Len(nodes)] EXCEPT !.dim = dim])
    ELSE LET index  == DimIndex(dim)
             median == Median(Len(nodes))
             sorted == sort_by(nodes, index)
             left0  == SubSeq(sorted, 1, median)
             right  == SubSeq(sorted, median + 1, Len(sorted))
         IN  IF left0 = <<>>
             THEN None      \* left.pop()? on an empty left part
             ELSE LET curr == left0[Len(left0)]
                      left == SubSeq(left0, 1, Len(left0) - 1)
                  IN  Some([curr EXCEPT
                              !.left  = build_tree(left, next(dim)),
                              !.right = build_tree(right, next(dim)),
                              !.dim   = dim])

\* BlockDb::new as a function of its argument
new_root(its) ==
    build_tree([i \in 1..Len(its) |-> NewNode(its[i])], "First")

(***************************************************************************)
(* Tree helpers used by the properties                                     *)
(***************************************************************************)
\* all nodes of an Option<Node>, each with its depth
RECURSIVE NodesAt(_, _)
NodesAt(opt, depth) ==
    IF opt = None
    THEN {}
    ELSE {[node |-> opt[1], depth |-> depth]}
         \cup NodesAt(opt[1].left, depth + 1)
         \cup NodesAt(opt[1].right, depth + 1)

Nodes(opt) == {e.node : e \in NodesAt(opt, 0)}

RECURSIVE Size(_)
Size(opt) ==
    IF opt = None THEN 0 ELSE 1 + Size(opt[1].left) + Size(opt[1].right)

\* the bag of (key, item) pairs held by a tree
RECURSIVE PairBag(_)
PairBag(opt) ==
    IF opt = None
    THEN EmptyBag
    ELSE SetToBag({<<opt[1].key, opt[1].item>>})
         (+) PairBag(opt[1].left) (+) PairBag(opt[1].right)

RECURSIVE InputBag(_)
InputBag(its) ==
    IF its = <<>>
    THEN EmptyBag
    ELSE SetToBag({<<keyfn(its[1]), its[1]>>}) (+) InputBag(Tail(its))

ExactSqDist(k, p) ==
    (p[1] - k[1]) * (p[1] - k[1]) + (p[2] - k[2]) * (p[2] - k[2])
      + (p[3] - k[3]) * (p[3] - k[3])

(***************************************************************************)
(* Inputs                                                                  *)
(***************************************************************************)
Points ==
    {p \in (0..MaxSqNorm) \X (0..MaxSqNorm) \X (0..MaxSqNorm) :
        ExactSqDist(<<0, 0, 0>>, p) <= MaxSqNorm}

\* the item list BlockDb::new receives for the coordinates f[1..m]
ItemsOf(f, m) == [i \in 1..m |-> Item(i, f[i])]

\* the coordinates and the queries of test_r_tree
TestCoords ==
    << <<1, 1, 0>>, <<1, 3, 0>>, <<1, 6, 0>>, <<3, 1, 0>>,
       <<6, 1, 0>>, <<3, 1, 1>>, <<3, 1, 4>> >>
TestItems == [i \in 1..Len(TestCoords) |-> Item(i, TestCoords[i])]
TestQueries ==
    { <<4, 1, 0>>, <<1, 1, 0>>, <<10, 1, 0>>, <<3, 1, -1>>, <<3, 1, 3>> }

\* the components main.rs's keys are sampled from, and the sampled colours:
\* the greys <<v, v, v>> and the reds <<v, 0, 0>>
ColorSamples == {0, 181, 182, ColorMax}
ColorPoints ==
    {<<v, v, v>> : v \in ColorSamples} \cup {<<v, 0, 0>> : v \in ColorSamples}

(***************************************************************************)
(* BlockDb::find_closest and its helpers, as the recursive function the    *)
(* source defines (one call running alone)                                 *)
(***************************************************************************)
get_dist(dim, k1, k2) ==
    LET n1 == k1[DimIndex(dim)]
        n2 == k2[DimIndex(dim)]
    IN  IF n1 > n2 THEN Sub(n1, n2) ELSE Sub(n2, n1)

pick_farther_node(pos, n1, n2) ==
    IF squared_dist(n1, pos) > squared_dist(n2, pos) THEN n1 ELSE n2

pick_closer_node(pos, n1, n2) ==
    IF squared_dist(n1, pos) < squared_dist(n2, pos) THEN n1 ELSE n2

\* `pos[index] < node.key[index]`
IsLess(node, pos) == pos[DimIndex(node.dim)] < node.key[DimIndex(node.dim)]

\* the child descended first, and the other one
FirstChild(node, is_less) == IF is_less THEN node.left ELSE node.right
OtherChild(node, is_less) == IF ~is_less THEN node.left ELSE node.right

\* `get_dist(node.dim, &node.key, &pos) < best.squared_dist(&pos)`
Intersects(node, best, pos) ==
    get_dist(node.dim, node.key, pos) < squared_dist(best, pos)

RECURSIVE find_closest(_, _)
find_closest(node, pos) ==
    IF is_leaf(node)
    THEN node
    ELSE LET is_less == IsLess(node, pos)
             first   == FirstChild(node, is_less)
             other   == OtherChild(node, is_less)
             best0   == IF first = None THEN node
                        ELSE find_closest(first[1], pos)
             best1   == pick_closer_node(pos, best0, node)
             best2   == IF Intersects(node, best1, pos)
                        THEN pick_closer_node(pos, best1,
                                 IF other = None THEN node
                                 ELSE find_closest(other[1], pos))
                        ELSE best1
         IN  pick_closer_node(pos, best2, node)

find_closest_pos(r, pos) ==
    IF r = None THEN None ELSE Some(find_closest(r[1], pos).item)

(***************************************************************************)
(* The same code run by workers that interleave: each worker has its own   *)
(* call stack of find_closest frames.  A frame's pc is the point the call  *)
(* has reached:                                                            *)
(*   "enter"  the call has just been made                       (line 141) *)
(*   "first"  waiting for the first recursive call        (lines 146-154)  *)
(*   "prune"  about to evaluate the boundary test              (line 159)  *)
(*   "far"    waiting for the second recursive call       (lines 160-168)  *)
(***************************************************************************)
IdleThread ==
    [status |-> "idle", pos |-> <<0, 0, 0>>, stack |-> <<>>,
     ret |-> None, result |-> None]

Frame(node) ==
    [node |-> node, pc |-> "enter", is_less |-> FALSE, best |-> None]

Top(th) == th.stack[Len(th.stack)]

SetTop(th, f) == [th EXCEPT !.stack[Len(th.stack)] = f, !.ret = None]

Push(th, f, node) ==
    [th EXCEPT !.stack = Append(SubSeq(th.stack, 1, Len(th.stack) - 1), f)
                           \o <<Frame(node)>>,
               !.ret = None]

\* `return node` of find_closest; the outermost return is the
\* `.map(|root| &...item)` of find_closest_pos
Return(th, node) ==
    LET st == SubSeq(th.stack, 1, Len(th.stack) - 1)
    IN  IF st = <<>>
        THEN [th EXCEPT !.status = "done", !.stack = <<>>, !.ret = None,
                        !.result = Some(node.item)]
        ELSE [th EXCEPT !.stack = st, !.ret = Some(node)]

\* an arithmetic overflow of the debug profile unwinds the worker
Panic(th) ==
    [th EXCEPT !.status = "panicked", !.stack = <<>>, !.ret = None]

Panics(pos, ns) ==
    profile = "debug" /\ \E n \in ns : squared_dist_overflows(n, pos)

Running(t) == t \in DOMAIN threads /\ threads[t].status = "running"

AtPc(t, pc) == Running(t) /\ Top(threads[t]).pc = pc

(***************************************************************************)
(* BlockDb::new                                                            *)
(***************************************************************************)
new(its) ==
    /\ phase = "init"
    /\ phase' = "built"
    /\ items' = its
    /\ root' = new_root(its)
    /\ UNCHANGED <<T, profile, threads>>

(***************************************************************************)
(* BlockDb::find_closest_pos, step by step                                 *)
(***************************************************************************)
StartQuery(t, pos) ==
    /\ phase = "built"
    /\ threads[t].status \in {"idle", "done"}
    /\ threads' = [threads EXCEPT ![t] =
          IF root = None
          THEN [IdleThread EXCEPT !.status = "done", !.pos = pos]
          ELSE [IdleThread EXCEPT !.status = "running", !.pos = pos,
                                  !.stack = <<Frame(root[1])>>]]
    /\ UNCHANGED <<T, profile, phase, items, root>>

\* lines 141-156: the leaf test, the choice of the first branch, and, when
\* that child is absent, `map_or(node, ..)` followed by pick_closer_node
Enter_threads(t) ==
    LET th      == threads[t]
        top     == Top(th)
        node    == top.node
        is_less == IsLess(node, th.pos)
        first   == FirstChild(node, is_less)
    IN  /\ AtPc(t, "enter")
        /\ threads' = [threads EXCEPT ![t] =
              IF is_leaf(node)
              THEN Return(th, node)
              ELSE IF first # None
              THEN Push(th, [top EXCEPT !.pc = "first", !.is_less = is_less],
                        first[1])
              ELSE IF Panics(th.pos, {node})
              THEN Panic(th)
              ELSE SetTop(th, [top EXCEPT !.pc = "prune", !.is_less = is_less,
                       !.best = Some(pick_closer_node(th.pos, node, node))])]

Enter_writes_tree(t) ==
    /\ Enter_threads(t)
    /\ root' = Some([root[1] EXCEPT !.dim = next(@)])
    /\ UNCHANGED <<T, profile, phase, items>>

Enter(t) ==
    /\ Enter_threads(t)
    /\ UNCHANGED <<T, profile, phase, items, root>>

\* line 156 after the first recursive call has returned
AfterFirst(t) ==
    LET th   == threads[t]
        top  == Top(th)
        node == top.node
    IN  /\ AtPc(t, "first")
        /\ th.ret # None
        /\ threads' = [threads EXCEPT ![t] =
              IF Panics(th.pos, {th.ret[1], node})
              THEN Panic(th)
              ELSE SetTop(th, [top EXCEPT !.pc = "prune",
                       !.best = Some(pick_closer_node(th.pos, th.ret[1], node))])]
        /\ UNCHANGED <<T, profile, phase, items, root>>

\* lines 159-174: the boundary test; the other branch is searched, or
\* skipped and the call returns
Prune(t) ==
    LET th    == threads[t]
        top   == Top(th)
        node  == top.node
        best  == top.best[1]
        other == OtherChild(node, top.is_less)
    IN  /\ AtPc(t, "prune")
        /\ threads' = [threads EXCEPT ![t] =
              IF Panics(th.pos, {best, node})
              THEN Panic(th)
              ELSE IF Intersects(node, best, th.pos)
              THEN IF other # None
                   THEN Push(th, [top EXCEPT !.pc = "far"], other[1])
                   ELSE Return(th, pick_closer_node(th.pos,
                            pick_closer_node(th.pos, best, node), node))
              ELSE Return(th, pick_closer_node(th.pos, best, node))]
        /\ UNCHANGED <<T, profile, phase, items, root>>

\* lines 169-174 after the second recursive call has returned
AfterFar(t) ==
    LET th   == threads[t]
        top  == Top(th)
        node == top.node
        best == top.best[1]
    IN  /\ AtPc(t, "far")
        /\ th.ret # None
        /\ threads' = [threads EXCEPT ![t] =
              IF Panics(th.pos, {best, th.ret[1], node})
              THEN Panic(th)
              ELSE Return(th, pick_closer_node(th.pos,
                       pick_closer_node(th.pos, best, th.ret[1]), node))]
        /\ UNCHANGED <<T, profile, phase, items, root>>

(***************************************************************************)
(* Specifications                                                          *)
(***************************************************************************)
InitWith(ty, profiles, n) ==
    /\ T = ty
    /\ profile \in profiles
    /\ phase = "init"
    /\ items = <<>>
    /\ root = None
    /\ threads = [t \in 1..n |-> IdleThread]

\* test-sized integer keys, one caller: any item list over Points, any
\* query in Points
Init == InitWith("i64", {"debug"}, 1)

New ==
    /\ phase = "init"
    /\ \E m \in 0..MaxItems : \E f \in [1..m -> Points] : new(ItemsOf(f, m))

Query == \E t \in DOMAIN threads : \E pos \in Points : StartQuery(t, pos)

Next ==
    \/ New
    \/ Query
    \/ \E t \in DOMAIN threads : Enter(t)
    \/ \E t \in DOMAIN threads : AfterFirst(t)
    \/ \E t \in DOMAIN threads : Prune(t)
    \/ \E t \in DOMAIN threads : AfterFar(t)

Spec == Init /\ [][Next]_vars

\* construction alone, on longer item lists
InitBuild == InitWith("i64", {"debug"}, 1)

NewBuild ==
    /\ phase = "init"
    /\ \E m \in 0..MaxBuildItems : \E f \in [1..m -> Points] :
          new(ItemsOf(f, m))

NextBuild == NewBuild

SpecBuild == InitBuild /\ [][NextBuild]_vars

\* test_r_tree's index, queried by NThreads workers at once as main.rs's
\* into_par_iter does
InitPar == InitWith("i64", {"debug"}, NThreads)

NewTest == new(TestItems)

QueryTest ==
    \E t \in DOMAIN threads : \E pos \in TestQueries : StartQuery(t, pos)

NextPar ==
    \/ NewTest
    \/ QueryTest
    \/ \E t \in DOMAIN threads : Enter(t)
    \/ \E t \in DOMAIN threads : AfterFirst(t)
    \/ \E t \in DOMAIN threads : Prune(t)
    \/ \E t \in DOMAIN threads : AfterFar(t)

SpecPar == InitPar /\ [][NextPar]_vars

\* main.rs's instantiation: i16 keys and queries made of colour components
InitI16 == InitWith("i16", {"debug", "release"}, 1)

NewI16 ==
    /\ phase = "init"
    /\ \E m \in 0..MaxItems : \E f \in [1..m -> ColorPoints] :
          new(ItemsOf(f, m))

QueryI16 ==
    \E t \in DOMAIN threads : \E pos \in ColorPoints : StartQuery(t, pos)

NextI16 ==
    \/ NewI16
    \/ QueryI16
    \/ \E t \in DOMAIN threads : Enter(t)
    \/ \E t \in DOMAIN threads : AfterFirst(t)
    \/ \E t \in DOMAIN threads : Prune(t)
    \/ \E t \in DOMAIN threads : AfterFar(t)

SpecI16 == InitI16 /\ [][NextI16]_vars

(***************************************************************************)
(* Properties                                                              *)
(***************************************************************************)
Done(t) == threads[t].status = "done"

DistinctCoords ==
    \A i, j \in 1..Len(items) : i # j => keyfn(items[i]) # keyfn(items[j])

\* the smallest exact squared distance from p to a stored coordinate is d
IsMinDist(d, p) ==
    /\ \E i \in 1..Len(items) : ExactSqDist(keyfn(items[i]), p) = d
    /\ \A i \in 1..Len(items) : ExactSqDist(keyfn(items[i]), p) >= d

\* C1: on an index built from a non-empty list of items with pairwise
\* distinct coordinates, every finished query has returned an item whose
\* coordinate is at the minimum squared distance from the query point.
C1_ClosestPoint ==
    \A t \in DOMAIN threads :
        (Done(t) /\ items # <<>> /\ DistinctCoords) =>
            /\ threads[t].result # None
            /\ IsMinDist(ExactSqDist(keyfn(threads[t].result[1]),
                                     threads[t].pos), threads[t].pos)

\* C2: a finished query whose point is a stored coordinate has returned an
\* item at squared distance 0 from it.
C2_ExactMatch ==
    \A t \in DOMAIN threads :
        (Done(t) /\ \E i \in 1..Len(items) : keyfn(items[i]) = threads[t].pos)
            => /\ threads[t].result # None
               /\ ExactSqDist(keyfn(threads[t].result[1]), threads[t].pos) = 0

\* C3: building always succeeds, the root is absent exactly when the item
\* list was empty, no query fails, and a finished query has returned None
\* exactly when the item list was empty and otherwise one of the items
\* given to BlockDb::new.
C3_NoneIffEmpty ==
    /\ phase = "built" => (root = None <=> items = <<>>)
    /\ \A t \in DOMAIN threads :
          /\ threads[t].status # "panicked"
          /\ Done(t) =>
                /\ threads[t].result = None <=> items = <<>>
                /\ threads[t].result # None =>
                      \E i \in 1..Len(items) : items[i] = threads[t].result[1]

C3_Witness ==
    \E t \in DOMAIN threads :
        /\ Done(t)
        /\ Len(items) >= 3
        /\ threads[t].result # None
        /\ keyfn(threads[t].result[1]) # root[1].key

\* the answers test_r_tree asserts, as <<query, expected coordinate>>
TestAnswers ==
    { << <<4, 1, 0>>,  <<3, 1, 0>> >>,
      << <<1, 1, 0>>,  <<1, 1, 0>> >>,
      << <<10, 1, 0>>, <<6, 1, 0>> >>,
      << <<3, 1, -1>>, <<3, 1, 0>> >>,
      << <<3, 1, 3>>,  <<3, 1, 4>> >> }

\* C4: on the index built from test_r_tree's seven coordinates in their
\* input order, each of the five queries of the test returns the item the
\* test expects.
C4_TestScenario ==
    \A t \in DOMAIN threads :
        (Done(t) /\ items = TestItems) =>
            \A qa \in TestAnswers :
                threads[t].pos = qa[1] =>
                    /\ threads[t].result # None
                    /\ threads[t].result[1].pos = qa[2]

C4_Witness ==
    \E t \in DOMAIN threads :
        /\ Done(t)
        /\ items = TestItems
        /\ threads[t].pos = <<3, 1, 3>>
        /\ threads[t].result = Some(Item(7, <<3, 1, 4>>))

\* C5: once BlockDb::new has returned no step changes the tree, and every
\* query that finishes while others run has returned what find_closest_pos
\* returns when it runs alone on the same index.
C5_ReadOnlyQueries ==
    /\ [][phase = "built" => root' = root]_vars
    /\ [](\A t \in DOMAIN threads :
             Done(t) => threads[t].result = find_closest_pos(root, threads[t].pos))

C5_Witness ==
    \E t, u \in DOMAIN threads :
        /\ t # u
        /\ Running(t) /\ Len(threads[t].stack) >= 2
        /\ Running(u) /\ Len(threads[u].stack) >= 2
        /\ threads[t].pos # threads[u].pos

DimOfDepth(depth) ==
    CASE depth % 3 = 0 -> "First"
      [] depth % 3 = 1 -> "Second"
      [] depth % 3 = 2 -> "Third"

\* C6: in the built tree every key of a node's left subtree is >= the
\* node's key on the node's axis, every key of its right subtree is <= it,
\* and the node's axis is First, Second or Third by its depth modulo 3.
C6_PartitionAndAxis ==
    phase = "built" =>
        \A e \in NodesAt(root, 0) :
            LET n == e.node
                a == DimIndex(n.dim)
            IN  /\ \A l \in Nodes(n.left)  : l.key[a] >= n.key[a]
                /\ \A r \in Nodes(n.right) : r.key[a] <= n.key[a]
                /\ n.dim = DimOfDepth(e.depth)

C6_Witness ==
    /\ phase = "built"
    /\ \E e \in NodesAt(root, 0) : e.depth = 3 /\ e.node.dim = "First"
    /\ \E n \in Nodes(root) :
          \E l \in Nodes(n.left) : l.key[DimIndex(n.dim)] > n.key[DimIndex(n.dim)]
    /\ \E n \in Nodes(root) :
          /\ \E r \in Nodes(n.right) : r.key[DimIndex(n.dim)] < n.key[DimIndex(n.dim)]
          /\ \E r \in Nodes(n.right) : r.key[DimIndex(n.dim)] = n.key[DimIndex(n.dim)]

\* C7: whenever the boundary test of a visited node fails, so that the
\* other branch is skipped, that subtree holds no key strictly closer to
\* the query point than the current best.
C7_PruningSound ==
    \A t \in DOMAIN threads :
        AtPc(t, "prune") =>
            LET th   == threads[t]
                top  == Top(th)
                best == top.best[1]
            IN  ~Intersects(top.node, best, th.pos) =>
                    \A k \in Nodes(OtherChild(top.node, top.is_less)) :
                        ~(squared_dist(k, th.pos) < squared_dist(best, th.pos))

\* C8: the child descended first is on the query point's side of the
\* node's split value: its keys are <= the node's key on the node's axis
\* when the query's component is less, and >= it otherwise.
C8_FirstIsNear ==
    \A t \in DOMAIN threads :
        Running(t) =>
            \A i \in 1..Len(threads[t].stack) :
                LET f == threads[t].stack[i]
                    a == DimIndex(f.node.dim)
                IN  f.pc = "first" =>
                      \A k \in Nodes(FirstChild(f.node, f.is_less)) :
                          IF f.is_less
                          THEN k.key[a] <= f.node.key[a]
                          ELSE k.key[a] >= f.node.key[a]

\* C9: the built tree has exactly as many nodes as items were given, holds
\* the same bag of (key, item) pairs, and every subtree of m >= 2 nodes has
\* m / 2 - 1 nodes on the left of its pivot and m - m / 2 on the right.
C9_NoItemLost ==
    phase = "built" =>
        /\ Size(root) = Len(items)
        /\ PairBag(root) = InputBag(items)
        /\ \A n \in Nodes(root) :
              LET m == Size(Some(n))
              IN  m >= 2 =>
                    /\ Size(n.left) = (m \div 2) - 1
                    /\ Size(n.right) = m - (m \div 2)

C9_Witness ==
    /\ phase = "built"
    /\ Len(items) >= 5
    /\ Size(root) = Len(items)
    /\ \E i, j \in 1..Len(items) : i # j /\ keyfn(items[i]) = keyfn(items[j])
    /\ root[1].left # None
    /\ \E n \in Nodes(root) : n # root[1] /\ Size(n.right) >= 2

\* C10: with i16 keys and colour components in 0..=255, no squared_dist a
\* query has evaluated left the i16 range: no worker has panicked, and the
\* distances compared at a visited node equal the exact squared distances.
C10_NoI16Overflow ==
    \A t \in DOMAIN threads :
        /\ threads[t].status # "panicked"
        /\ AtPc(t, "prune") =>
              \A n \in {Top(threads[t]).node, Top(threads[t]).best[1]} :
                  /\ ~squared_dist_overflows(n, threads[t].pos)
                  /\ squared_dist(n, threads[t].pos)
                        = ExactSqDist(n.key, threads[t].pos)

====
